---- MODULE Spec2Model ----
(***************************************************************************)
(* Model of CasaSapoScraper (src/sapo_scraper.py) and of create_dataframe  *)
(* (src/utils/utils.py).                                                   *)
(*                                                                         *)
(* A text is a sequence of one-character strings.  A Python value is a     *)
(* tagged record, so that values of different Python types can be compared *)
(* (None, int, float, str, Timestamp, a raised exception).                 *)
(*                                                                         *)
(* Two specifications:                                                     *)
(*   Spec         the crawl loop get_all_properties, one step per action;  *)
(*   SpecExtract  the field extractors applied to listing fragments drawn  *)
(*                from bounded sets.                                       *)
(***************************************************************************)
EXTENDS Integers, Sequences, FiniteSets, TLC

VARIABLES
    N_PAGES,            \* self.N_PAGES
    pc,                 \* position in get_all_properties
    page_number,        \* the for-loop variable (next value of range)
    property_listing,   \* result of get_property_listing for the current page
    i,                  \* position of the inner enumerate (0-based)
    results,            \* the accumulator list of 8-tuples
    summary,            \* what the summary log line reports
    ret,                \* how get_all_properties ended: value or exception
    trace,              \* the requests and sleeps issued, in order
    fetched,            \* history: fetched[k+1] is the number of listings page k
                        \* returned, -1 for a fetch failure
    faults,             \* history: <<page, i>> of every per-listing fault
    appended,           \* history: <<page, i>> of every appended record
    property,           \* SpecExtract: the listing fragment
    out                 \* SpecExtract: the extractor applied and its result

vars == <<N_PAGES, pc, page_number, property_listing, i, results, summary, ret,
          trace, fetched, faults, appended, property, out>>

crawlVars == <<N_PAGES, pc, page_number, property_listing, i, results, summary,
               ret, trace, fetched, faults, appended>>

----------------------------------------------------------------------------
(* Bounds of the model. *)

MaxPages == 3
MaxListings == 2
MaxPriceLen == 4
MaxSizeLen == 2
MaxLocLen == 9

----------------------------------------------------------------------------
(* Python values. *)

NoneVal == [t |-> "None"]
StrVal(chars) == [t |-> "str", chars |-> chars]
IntVal(n) == [t |-> "int", int |-> n]
FloatVal(n) == [t |-> "float", num |-> n]
Timestamp(chars) == [t |-> "Timestamp", date |-> chars]
NaT == [t |-> "NaT"]
TupleVal(items) == [t |-> "tuple", items |-> items]
Raise(e) == [t |-> "raise", exc |-> e]

IsRaise(v) == v.t = "raise"

Min2(a, b) == IF a < b THEN a ELSE b
Max2(a, b) == IF a > b THEN a ELSE b

(* Python's normalisation of a slice bound k for a sequence of length n. *)
SliceBound(k, n) == IF k < 0 THEN Max2(k + n, 0) ELSE Min2(k, n)

(* s[lo:hi] *)
PySlice(s, lo, hi) ==
    LET a == SliceBound(lo, Len(s))
        b == SliceBound(hi, Len(s))
    IN  IF a >= b THEN <<>> ELSE SubSeq(s, a + 1, b)

(* s.find(c): the 0-based index of the first c, or -1. *)
PyFind(s, c) ==
    IF \E k \in 1..Len(s) : s[k] = c
    THEN (CHOOSE k \in 1..Len(s) : s[k] = c /\ \A j \in 1..(k - 1) : s[j] # c) - 1
    ELSE -1

Digits == {"0", "1", "2", "3", "4", "5", "6", "7", "8", "9"}

(* str.isdigit on one character (ASCII digits). *)
IsDigit(c) == c \in Digits

(* int(c) of one digit character, and str(d) of one digit. *)
DigitValue(c) ==
    CASE c = "0" -> 0 [] c = "1" -> 1 [] c = "2" -> 2 [] c = "3" -> 3
      [] c = "4" -> 4 [] c = "5" -> 5 [] c = "6" -> 6 [] c = "7" -> 7
      [] c = "8" -> 8 [] c = "9" -> 9

DigitStr(d) ==
    CASE d = 0 -> "0" [] d = 1 -> "1" [] d = 2 -> "2" [] d = 3 -> "3"
      [] d = 4 -> "4" [] d = 5 -> "5" [] d = 6 -> "6" [] d = 7 -> "7"
      [] d = 8 -> "8" [] d = 9 -> "9"

(* The number a non-empty run of digit characters denotes. *)
RECURSIVE DigitsNumber(_)
DigitsNumber(s) ==
    IF s = <<>> THEN 0
    ELSE 10 * DigitsNumber(SubSeq(s, 1, Len(s) - 1)) + DigitValue(s[Len(s)])

(* int(s): ValueError on the empty string or a non-digit. *)
PyInt(s) ==
    IF s = <<>> \/ \E k \in 1..Len(s) : ~IsDigit(s[k])
    THEN Raise("ValueError")
    ELSE IntVal(DigitsNumber(s))

(* float(s) for a run of digits: ValueError on the empty string. *)
PyFloat(s) ==
    IF s = <<>> \/ \E k \in 1..Len(s) : ~IsDigit(s[k])
    THEN Raise("ValueError")
    ELSE FloatVal(DigitsNumber(s))

(* itertools.takewhile(pred, s) for pred = str.isdigit *)
RECURSIVE TakeWhileDigit(_)
TakeWhileDigit(s) ==
    IF s = <<>> \/ ~IsDigit(Head(s)) THEN <<>>
    ELSE <<Head(s)>> \o TakeWhileDigit(Tail(s))

(* All sequences over S of length at most n. *)
SeqsUpTo(S, n) == UNION {[1..k -> S] : k \in 0..n}

(* A run of n filler characters. *)
Pad(n) == [k \in 1..n |-> "x"]

----------------------------------------------------------------------------
(* A listing fragment is what BeautifulSoup's find_all sees in it:         *)
(*   span  the texts of its <span> elements,                               *)
(*   p     its <p> elements, each with a class and a text,                 *)
(*   div   its <div> elements, each with a class and a text,               *)
(*   a     its <a> elements, each with its href (a str value or None).     *)

Fragment(span, p, div, a) == [span |-> span, p |-> p, div |-> div, a |-> a]

Elem(class, text) == [class |-> class, text |-> text]

(* find_all(tag, class_=class) restricted to the texts. *)
RECURSIVE TextsOfClass(_, _)
TextsOfClass(elems, class) ==
    IF elems = <<>> THEN <<>>
    ELSE (IF Head(elems).class = class THEN <<Head(elems).text>> ELSE <<>>)
         \o TextsOfClass(Tail(elems), class)

Texts(elems) == [k \in 1..Len(elems) |-> elems[k].text]

BASE_URI == <<"https://casa.sapo.pt">>

ContacteAnunciante ==
    <<"C", "o", "n", "t", "a", "c", "t", "e", " ",
      "A", "n", "u", "n", "c", "i", "a", "n", "t", "e">>

Dash == <<"-">>

----------------------------------------------------------------------------
(* The field extractors.  X_try is the body of the try block of            *)
(* get_property_X: its value, or the exception it raises; get_property_X   *)
(* adds the except clause.                                                 *)

(* price[0:price.find('/') - 1] when the text holds a '/' *)
CutPeriod(price) ==
    IF PyFind(price, "/") # -1
    THEN PySlice(price, 0, PyFind(price, "/") - 1)
    ELSE price

(* The digits of the text re-concatenated and parsed. *)
DigitsToInt(price) ==
    LET kept == SelectSeq(price, IsDigit)
        price_ == [k \in 1..Len(kept) |-> DigitValue(kept[k])]
        joined == [k \in 1..Len(price_) |-> DigitStr(price_[k])]
    IN  PyInt(joined)

price_try(frag) ==
    LET spans == frag.span
    IN  IF Len(spans) < 3 THEN Raise("IndexError")
        ELSE IF spans[3] = ContacteAnunciante
        THEN IF Len(spans) < 4 THEN Raise("IndexError")
             ELSE DigitsToInt(CutPeriod(CutPeriod(spans[4])))
        ELSE DigitsToInt(CutPeriod(spans[3]))

get_property_price_nocatch(frag) == price_try(frag)

get_property_price(frag) ==
    IF IsRaise(price_try(frag)) THEN NoneVal ELSE price_try(frag)

zone_try(frag) ==
    LET locs == TextsOfClass(frag.p, "searchPropertyLocation")
    IN  IF Len(locs) < 1 THEN Raise("IndexError")
        ELSE StrVal(PySlice(locs[1], 7, PyFind(locs[1], ",")))

get_property_zone(frag) ==
    IF IsRaise(zone_try(frag)) THEN StrVal(<<>>) ELSE zone_try(frag)

title_try(frag) ==
    IF Len(frag.span) < 1 THEN Raise("IndexError") ELSE StrVal(frag.span[1])

get_property_title(frag) ==
    IF IsRaise(title_try(frag)) THEN StrVal(<<>>) ELSE title_try(frag)

condition_try(frag) ==
    IF Len(frag.p) < 6 THEN Raise("IndexError") ELSE StrVal(frag.p[6].text)

get_property_condition(frag) ==
    IF IsRaise(condition_try(frag)) THEN StrVal(<<>>) ELSE condition_try(frag)

_preprocess_m2(result) ==
    LET IsNotNbsp(c) == c # "nbsp"
        m2 == SelectSeq(result, IsNotNbsp)
    IN  PyFloat(TakeWhileDigit(m2))

size_try(frag) ==
    LET ps == Texts(frag.p)
    IN  IF Len(ps) < 10 THEN Raise("IndexError")
        ELSE IF ps[10] # Dash THEN _preprocess_m2(ps[10])
        ELSE IF ps[8] # Dash THEN _preprocess_m2(ps[8])
        ELSE StrVal(ps[8])

get_property_size(frag) ==
    IF IsRaise(size_try(frag)) THEN StrVal(<<>>) ELSE size_try(frag)

(* pd.to_datetime on a 10-character slice: an ISO date parses, the empty   *)
(* string is NaT, anything else is a parse error.                          *)
IsIsoDate(s) ==
    /\ Len(s) = 10
    /\ s[5] = "-" /\ s[8] = "-"
    /\ \A k \in {1, 2, 3, 4, 6, 7, 9, 10} : IsDigit(s[k])

to_datetime(s) ==
    IF s = <<>> THEN NaT
    ELSE IF IsIsoDate(s) THEN Timestamp(s)
    ELSE Raise("ParserError")

date_try(frag) ==
    LET dates == TextsOfClass(frag.div, "searchPropertyDate")
    IN  IF Len(dates) < 1 THEN Raise("IndexError")
        ELSE to_datetime(PySlice(dates[1], 21, 31))

get_property_date(frag) ==
    IF IsRaise(date_try(frag)) THEN StrVal(<<>>) ELSE date_try(frag)

description_try(frag) ==
    LET descs == TextsOfClass(frag.p, "searchPropertyDescription")
    IN  IF Len(descs) < 1 THEN Raise("IndexError")
        ELSE StrVal(PySlice(descs[1], 7, -6))

get_property_description(frag) ==
    IF IsRaise(description_try(frag)) THEN StrVal(<<>>) ELSE description_try(frag)

(* urljoin(base, url) for a base without a path and a relative url. *)
urljoin(base, url) ==
    IF url = <<>> THEN base
    ELSE IF Head(url) = "/" THEN base \o url
    ELSE base \o <<"/">> \o url

link_try(frag) ==
    IF Len(frag.a) < 1 THEN Raise("IndexError")
    ELSE IF frag.a[1] = NoneVal THEN Raise("TypeError")
    ELSE StrVal(urljoin(BASE_URI, PySlice(frag.a[1].chars, 1, -6)))

get_property_link(frag) ==
    IF IsRaise(link_try(frag)) THEN StrVal(<<>>) ELSE link_try(frag)

(* The 8-tuple, or the first exception an extractor lets through. *)
get_property_info(frag) ==
    LET info == << get_property_title(frag), get_property_price(frag),
                   get_property_size(frag), get_property_zone(frag),
                   get_property_condition(frag), get_property_date(frag),
                   get_property_description(frag), get_property_link(frag) >>
    IN  IF \E k \in 1..8 : IsRaise(info[k])
        THEN info[CHOOSE k \in 1..8 : IsRaise(info[k])
                                      /\ \A j \in 1..(k - 1) : ~IsRaise(info[j])]
        ELSE TupleVal(info)

----------------------------------------------------------------------------
(* Listing fragments the extractors are applied to. *)

GoodSpans == << <<"T", "3">>, <<"3">>, <<"1", "2", "0", "m", "/", "m">>, <<"9">> >>

(* Ten <p> elements: location, description, the condition at position 5,   *)
(* the two size slots at positions 7 and 9.                                *)
ParagraphsWith(primary, secondary, locClass, descClass, location) ==
    << Elem(locClass, location),
       Elem(descClass, Pad(7) \o <<"T", "3">> \o Pad(6)),
       Elem("", <<"a">>), Elem("", <<"b">>), Elem("", <<"c">>),
       Elem("", <<"N", "o", "v", "o">>),
       Elem("", <<"d">>),
       Elem("", secondary),
       Elem("", <<"e">>),
       Elem("", primary) >>

GoodLocation == Pad(7) \o <<"P", "o", "r", "t", "o", ",", " ", "P", "T">>

GoodParagraphs ==
    ParagraphsWith(<<"9", "0", "nbsp", "m">>, Dash, "searchPropertyLocation",
                   "searchPropertyDescription", GoodLocation)

GoodDivs ==
    << Elem("searchPropertyDate",
            Pad(21) \o <<"2", "0", "2", "0", "-", "0", "1", "-", "1", "5">>) >>

GoodLinks == << StrVal(<<"/", "t", "3", "/">> \o Pad(6)) >>

GoodFragment == Fragment(GoodSpans, GoodParagraphs, GoodDivs, GoodLinks)

PriceTexts == SeqsUpTo({"1", "2", "/", "m"}, MaxPriceLen)

PriceFragments ==
    { Fragment(<<GoodSpans[1], GoodSpans[2], t, GoodSpans[4]>>,
               GoodParagraphs, GoodDivs, GoodLinks) : t \in PriceTexts }
    \cup
    { Fragment(<<GoodSpans[1], GoodSpans[2], ContacteAnunciante, t>>,
               GoodParagraphs, GoodDivs, GoodLinks) : t \in PriceTexts }

SizeTexts == SeqsUpTo({"1", "-", "m", "nbsp"}, MaxSizeLen)

SizeFragments ==
    { Fragment(GoodSpans,
               ParagraphsWith(s[1], s[2], "searchPropertyLocation",
                              "searchPropertyDescription", GoodLocation),
               GoodDivs, GoodLinks) : s \in SizeTexts \X SizeTexts }

LocationTexts == SeqsUpTo({"a", ","}, MaxLocLen)

ZoneFragments ==
    { Fragment(GoodSpans,
               ParagraphsWith(<<"9", "0">>, Dash, "searchPropertyLocation",
                              "searchPropertyDescription", t),
               GoodDivs, GoodLinks) : t \in LocationTexts }

(* Fragments with elements missing or malformed, in every combination. *)
SpanChoices == { <<>>, SubSeq(GoodSpans, 1, 2), GoodSpans }

ParagraphChoices ==
    { <<>>, SubSeq(GoodParagraphs, 1, 6), GoodParagraphs,
      ParagraphsWith(<<"m">>, Dash, "searchPropertyLocation",
                     "searchPropertyDescription", GoodLocation),
      ParagraphsWith(<<"9", "0">>, Dash, "", "searchPropertyDescription",
                     GoodLocation),
      ParagraphsWith(<<"9", "0">>, Dash, "searchPropertyLocation", "",
                     GoodLocation) }

DivChoices ==
    { <<>>, GoodDivs, << Elem("searchPropertyDate", Pad(21) \o <<"h", "o", "j", "e">>) >> }

LinkChoices == { <<>>, <<NoneVal>>, GoodLinks }

FaultFragments ==
    { Fragment(c[1], c[2], c[3], c[4]) :
        c \in SpanChoices \X ParagraphChoices \X DivChoices \X LinkChoices }

Fragments == PriceFragments \cup SizeFragments \cup ZoneFragments \cup FaultFragments

(* The fragments the crawl meets: a well-formed one, and one whose price    *)
(* and link cannot be extracted.                                           *)
DamagedFragment == Fragment(SubSeq(GoodSpans, 1, 2), GoodParagraphs, GoodDivs, <<>>)

(* A page of n listings, well-formed and damaged ones alternating. *)
Listing(n, first) ==
    [k \in 1..n |-> IF (k + first) % 2 = 0 THEN GoodFragment ELSE DamagedFragment]

Idle == [fn |-> "none", val |-> NoneVal]

----------------------------------------------------------------------------
(* SpecExtract: one extractor applied to one fragment. *)

CrawlIdle ==
    /\ N_PAGES = 0
    /\ pc = "idle"
    /\ page_number = 0
    /\ property_listing = NoneVal
    /\ i = 0
    /\ results = <<>>
    /\ summary = NoneVal
    /\ ret = NoneVal
    /\ trace = <<>>
    /\ fetched = <<>>
    /\ faults = {}
    /\ appended = <<>>

InitExtract ==
    /\ CrawlIdle
    /\ property \in Fragments
    /\ out = Idle

CallPrice ==
    /\ out = Idle
    /\ out' = [fn |-> "price", val |-> get_property_price(property)]
    /\ UNCHANGED <<crawlVars, property>>

CallSize ==
    /\ out = Idle
    /\ out' = [fn |-> "size", val |-> get_property_size(property)]
    /\ UNCHANGED <<crawlVars, property>>

CallZone ==
    /\ out = Idle
    /\ out' = [fn |-> "zone", val |-> get_property_zone(property)]
    /\ UNCHANGED <<crawlVars, property>>

CallInfo ==
    /\ out = Idle
    /\ out' = [fn |-> "info", val |-> get_property_info(property)]
    /\ UNCHANGED <<crawlVars, property>>

NextExtract == CallPrice \/ CallSize \/ CallZone \/ CallInfo

SpecExtract == InitExtract /\ [][NextExtract]_vars

----------------------------------------------------------------------------
(* Properties of the extractors, under SpecExtract. *)

(* What the try block of each extractor yields, in record order. *)
Tries(frag) ==
    << title_try(frag), price_try(frag), size_try(frag), zone_try(frag),
       condition_try(frag), date_try(frag), description_try(frag), link_try(frag) >>

Failing(frag) == { k \in 1..8 : IsRaise(Tries(frag)[k]) }

(* C4: when exactly one extractor fails, get_property_info still returns   *)
(* an 8-field record; the failing field holds its default (None for the    *)
(* price, the empty string otherwise) and every other field holds the      *)
(* value of its own extractor.                                             *)
C4_FieldFaultIsolation ==
    out.fn = "info" =>
        \A f \in 1..8 :
            Failing(property) = {f} =>
                /\ out.val.t = "tuple"
                /\ Len(out.val.items) = 8
                /\ out.val.items[f] = (IF f = 2 THEN NoneVal ELSE StrVal(<<>>))
                /\ \A g \in (1..8) \ {f} : out.val.items[g] = Tries(property)[g]

C4_Witness ==
    /\ out.fn = "info"
    /\ Failing(property) = {2}
    /\ out.val.t = "tuple"
    /\ out.val.items[2] = NoneVal
    /\ out.val.items[1] = StrVal(<<"T", "3">>)
    /\ out.val.items[3] = FloatVal(90)

(* The text get_property_price reads: the third span, or the fourth when   *)
(* the third reads 'Contacte Anunciante'.                                  *)
PriceText(frag) ==
    IF frag.span[3] = ContacteAnunciante THEN frag.span[4] ELSE frag.span[3]

BeforeSlash(text) ==
    IF PyFind(text, "/") = -1 THEN text ELSE SubSeq(text, 1, PyFind(text, "/"))

(* C5: a price text with a digit before its first '/' yields the integer   *)
(* made of all the digits before that '/', the one next to it included.    *)
C5_PriceKeepsDigitsBeforeSlash ==
    ( /\ out.fn = "price"
      /\ Len(property.span) >= 4
      /\ SelectSeq(BeforeSlash(PriceText(property)), IsDigit) # <<>> )
    => out.val = IntVal(DigitsNumber(SelectSeq(BeforeSlash(PriceText(property)), IsDigit)))

(* C6: with '-' in the primary size slot the secondary slot decides, and   *)
(* with '-' in both the size is absent, never the text '-'.                *)
C6_DoublePlaceholderIsAbsent ==
    ( /\ out.fn = "size"
      /\ Len(property.p) >= 10
      /\ property.p[10].text = Dash )
    => IF property.p[8].text = Dash
       THEN out.val \in {StrVal(<<>>), NoneVal}
       ELSE out.val = (IF IsRaise(_preprocess_m2(property.p[8].text))
                       THEN StrVal(<<>>)
                       ELSE _preprocess_m2(property.p[8].text))

LocationText(frag) == TextsOfClass(frag.p, "searchPropertyLocation")[1]

(* C7: the zone is the text from offset 7 up to the first comma, and the   *)
(* empty string when the text has no comma.                                *)
C7_ZoneUpToFirstComma ==
    ( /\ out.fn = "zone"
      /\ TextsOfClass(property.p, "searchPropertyLocation") # <<>> )
    => LET text == LocationText(property)
           comma == PyFind(text, ",")
       IN  IF comma # -1
           THEN out.val = StrVal(IF comma > 7 THEN SubSeq(text, 8, comma) ELSE <<>>)
           ELSE out.val = StrVal(<<>>)

----------------------------------------------------------------------------
(* The crawl loop: get_all_properties. *)

SLEEP == 7

ListVal(items) == [t |-> "list", items |-> items]

(* What one page request can meet: a transport failure, or a document with *)
(* some searchResultProperty fragments in it (possibly none).              *)
Failure == [kind |-> "failure"]
Document(listing) == [kind |-> "document", listing |-> listing]

PageOutcomes ==
    {Failure} \cup { Document(Listing(n, first)) : n \in 0..MaxListings, first \in {0, 1} }

(* _parse: None on any requests exception, the soup otherwise. *)
_parse(outcome) ==
    IF outcome.kind = "failure" THEN NoneVal
    ELSE [t |-> "soup", searchResultProperty |-> outcome.listing]

get_property_listing(outcome) ==
    LET soup == _parse(outcome)
    IN  IF soup # NoneVal THEN ListVal(soup.searchResultProperty) ELSE NoneVal

Truthy_NotNone(listing) == listing # NoneVal

(* `if property_listing:` -- None and the empty list are both false. *)
Truthy(listing) == listing # NoneVal /\ listing.items # <<>>

AfterListing_NoBreak(listing) == IF Truthy(listing) THEN "listing" ELSE "sleep"

(* Where the loop body goes after the request: into the listings, or break. *)
AfterListing(listing) == IF Truthy(listing) THEN "listing" ELSE "summary"

(* The transposition zip makes of the unpacked results. *)
Zip(rs) ==
    IF rs = <<>> THEN <<>>
    ELSE [c \in 1..8 |-> [r \in 1..Len(rs) |-> rs[r].items[c]]]

col_names == <<"title", "price", "size", "zone", "status", "date", "description", "uri">>

(* create_dataframe: eight positional arguments are required. *)
create_dataframe(args) ==
    IF Len(args) # 8 THEN Raise("TypeError")
    ELSE [t |-> "DataFrame", columns |-> col_names,
          data |-> [c \in 1..8 |-> args[c]]]

Init ==
    /\ N_PAGES \in 0..MaxPages
    /\ pc = "loop"
    /\ page_number = 0
    /\ property_listing = NoneVal
    /\ i = 0
    /\ results = <<>>
    /\ summary = NoneVal
    /\ ret = NoneVal
    /\ trace = <<>>
    /\ fetched = <<>>
    /\ faults = {}
    /\ appended = <<>>
    /\ property = NoneVal
    /\ out = Idle

(* Lines 206-210, 220-221: the next page is requested. *)
RequestPage ==
    /\ pc = "loop"
    /\ page_number < N_PAGES
    /\ \E outcome \in PageOutcomes :
        /\ property_listing' = get_property_listing(outcome)
        /\ fetched' = Append(fetched, IF outcome.kind = "failure" THEN -1
                                        ELSE Len(outcome.listing))
        /\ pc' = AfterListing(get_property_listing(outcome))
    /\ trace' = Append(trace, <<"request", page_number>>)
    /\ i' = 0
    /\ UNCHANGED <<N_PAGES, page_number, results, summary, ret, faults, appended,
                   property, out>>

(* Lines 212-215: one listing is extracted and its record appended. *)
ExtractListing ==
    /\ pc = "listing"
    /\ i < Len(property_listing.items)
    /\ ~IsRaise(get_property_info(property_listing.items[i + 1]))
    /\ property' = property_listing.items[i + 1]
    /\ results' = Append(results, get_property_info(property_listing.items[i + 1]))
    /\ appended' = Append(appended, <<page_number, i>>)
    /\ i' = i + 1
    /\ UNCHANGED <<N_PAGES, pc, page_number, property_listing, summary, ret, trace,
                   fetched, faults, out>>

(* Lines 216-219: an exception surfaces in the try block (from               *)
(* get_property_info, or from the statements around it); the handler, which  *)
(* encloses the whole inner loop, logs and continues the page loop.          *)
ListingFault ==
    /\ pc = "listing"
    /\ i < Len(property_listing.items)
    /\ property' = property_listing.items[i + 1]
    /\ faults' = faults \cup {<<page_number, i>>}
    /\ page_number' = page_number + 1
    /\ pc' = "loop"
    /\ UNCHANGED <<N_PAGES, property_listing, i, results, summary, ret, trace,
                   fetched, appended, out>>

(* The inner loop is exhausted. *)
EndOfListing ==
    /\ pc = "listing"
    /\ i = Len(property_listing.items)
    /\ pc' = "sleep"
    /\ UNCHANGED <<N_PAGES, page_number, property_listing, i, results, summary, ret,
                   trace, fetched, faults, appended, property, out>>

(* Line 223: time.sleep(self.SLEEP), then the next iteration. *)
Sleep ==
    /\ pc = "sleep"
    /\ trace' = Append(trace, <<"sleep", SLEEP>>)
    /\ page_number' = page_number + 1
    /\ pc' = "loop"
    /\ UNCHANGED <<N_PAGES, property_listing, i, results, summary, ret, fetched,
                   faults, appended, property, out>>

(* range(0, N_PAGES) is exhausted. *)
LoopExit ==
    /\ pc = "loop"
    /\ page_number >= N_PAGES
    /\ pc' = "summary"
    /\ UNCHANGED <<N_PAGES, page_number, property_listing, i, results, summary, ret,
                   trace, fetched, faults, appended, property, out>>

(* Line 225: the summary log line. *)
LogSummary ==
    /\ pc = "summary"
    /\ summary' = [pages |-> N_PAGES, properties |-> Len(results)]
    /\ pc' = "assemble"
    /\ UNCHANGED <<N_PAGES, page_number, property_listing, i, results, ret, trace,
                   fetched, faults, appended, property, out>>

(* Lines 227-229: the records are transposed and handed to create_dataframe. *)
Assemble ==
    /\ pc = "assemble"
    /\ ret' = create_dataframe(Zip(results))
    /\ pc' = "done"
    /\ UNCHANGED <<N_PAGES, page_number, property_listing, i, results, summary,
                   trace, fetched, faults, appended, property, out>>

Next ==
    \/ RequestPage
    \/ ExtractListing
    \/ ListingFault
    \/ EndOfListing
    \/ Sleep
    \/ LoopExit
    \/ LogSummary
    \/ Assemble

Spec == Init /\ [][Next]_vars

----------------------------------------------------------------------------
(* Properties of the crawl loop, under Spec. *)

(* The listings the first n pages returned. *)
RECURSIVE ListingsOf(_, _)
ListingsOf(f, n) == IF n = 0 THEN 0 ELSE ListingsOf(f, n - 1) + f[n]

Stopped == pc \in {"summary", "assemble", "done"}

(* The rows of a DataFrame, as 8-tuples. *)
Rows(df) ==
    [r \in 1..Len(df.data[1]) |-> TupleVal([c \in 1..8 |-> df.data[c][r]])]

(* Page p (0-based) has been left by the loop. *)
PageLeft(p) == p < Len(fetched) /\ (p < page_number \/ Stopped)

(* C1: get_all_properties never raises; it returns a dataset holding       *)
(* exactly the records collected, also when none was collected.            *)
C1_NeverRaises ==
    pc = "done" => (ret.t = "DataFrame" /\ Rows(ret) = results)

(* C2 as stated: when page k fails after pages 0..k-1 returned non-empty   *)
(* listing sets, the record count is the sum of the listing counts of      *)
(* pages 0..k-1 and no page beyond k is requested.                         *)
C2_FailureKeepsEveryEarlierListing ==
    \A k \in 1..Len(fetched) :
        (fetched[k] = -1 /\ \A j \in 1..(k - 1) : fetched[j] > 0) =>
            /\ Len(results) = ListingsOf(fetched, k - 1)
            /\ Len(fetched) = k
            /\ \A e \in 1..Len(trace) : trace[e][1] = "request" => trace[e][2] < k

(* C2 amended: the record count is at most that sum, and equal to it when  *)
(* no per-listing fault was raised; no page beyond k is requested.         *)
C2_FailureStopsTheCrawl ==
    \A k \in 1..Len(fetched) :
        (fetched[k] = -1 /\ \A j \in 1..(k - 1) : fetched[j] > 0) =>
            /\ Len(results) <= ListingsOf(fetched, k - 1)
            /\ (faults = {} => Len(results) = ListingsOf(fetched, k - 1))
            /\ Len(fetched) = k
            /\ Stopped
            /\ \A e \in 1..Len(trace) : trace[e][1] = "request" => trace[e][2] < k

C2_Witness ==
    /\ pc = "done"
    /\ Len(fetched) = 2
    /\ Len(fetched) < N_PAGES
    /\ fetched[1] = 2 /\ fetched[2] = -1
    /\ Len(results) = 2

(* C3: a per-listing fault skips that listing only: every other listing of *)
(* the page has its record appended.                                       *)
C3_FaultSkipsOneListing ==
    \A p \in 0..(Len(fetched) - 1) :
        PageLeft(p) =>
            \A j \in 0..(fetched[p + 1] - 1) :
                <<p, j>> \notin faults =>
                    \E r \in 1..Len(appended) : appended[r] = <<p, j>>

(* C8: an empty listing set stops the crawl as a fetch failure does: no    *)
(* later page is requested and the records of the earlier pages are the    *)
(* result.                                                                 *)
C8_EmptyPageStopsTheCrawl ==
    \A k \in 1..Len(fetched) :
        fetched[k] = 0 =>
            /\ Len(fetched) = k
            /\ Stopped
            /\ \A e \in 1..Len(trace) : trace[e][1] = "request" => trace[e][2] < k
            /\ Len(results) = Len(appended)
            /\ \A r \in 1..Len(appended) : appended[r][1] < k - 1
            /\ (pc = "done" /\ results # <<>>) =>
                   (ret.t = "DataFrame" /\ Rows(ret) = results)

C8_Witness ==
    /\ pc = "done"
    /\ Len(fetched) = 2
    /\ Len(fetched) < N_PAGES
    /\ fetched[1] = 2 /\ fetched[2] = 0
    /\ Len(results) = 2
    /\ ret.t = "DataFrame"
    /\ Rows(ret) = results

(* C9: no two page requests follow each other without a delay between      *)
(* them, and the delay also follows the last page whose listings were      *)
(* processed.                                                              *)
C9_DelayAfterEveryProcessedPage ==
    /\ \A e \in 1..(Len(trace) - 1) :
           trace[e][1] = "request" => trace[e + 1][1] = "sleep"
    /\ (Stopped /\ fetched # <<>> /\ fetched[Len(fetched)] > 0) =>
           trace[Len(trace)][1] = "sleep"

(* C10: the summary reports the pages actually visited (requested, or      *)
(* requested and processed) and the records collected.                     *)
C10_SummaryCountsVisitedPages ==
    summary # NoneVal =>
        /\ summary.pages \in { Len(fetched),
                               Cardinality({k \in 1..Len(fetched) : fetched[k] > 0}) }
        /\ summary.properties = Len(results)

====
